---- MODULE Spec2Model ----
(***************************************************************************)
(* Model of Opm::WellProductionProperties (WellProductionProperties.cpp):  *)
(* the resolution of a producer's control state from a WCONHIST record     *)
(* (history) or a WCONPROD record (prediction), the BHP limit setters and  *)
(* the comparison operators.  One well is followed over its report steps:  *)
(* every history() call takes the well's current properties as             *)
(* prev_properties, and a successful call publishes its result as the      *)
(* well's new properties.                                                  *)
(***************************************************************************)
EXTENDS Integers, Sequences, FiniteSets

(***************************************************************************)
(* Bounds of the model.                                                    *)
(***************************************************************************)
\* VFP table numbers a record may carry are 0..MaxVFP (0 is "unset").
MaxVFP == 1
\* Lift / ALQ quantities a record may carry are 0..MaxALQ (0 is "unset").
MaxALQ == 1

\* Rate values (SI) a record states for ORAT, WRAT, GRAT, LRAT, RESV.
RateValues == {1}
\* Pressure values (SI, Pa) a record states for BHP.
BHPValues == {8000000}
\* Non-zero pressure values (SI, Pa) a record states for THP.
THPValues == {3000000}
\* Pressure values (SI, Pa) setBHPLimit is called with between two records.
LimitValues == {6500000}

(***************************************************************************)
(* WellProducer::ControlModeEnum and its string conversion.                *)
(***************************************************************************)
\* The effective historical production controls, as the properties name them.
EffectiveModes == {"LRAT", "RESV", "ORAT", "WRAT", "GRAT", "BHP"}

ControlModeEnum ==
    {"NONE", "ORAT", "WRAT", "GRAT", "LRAT", "CRAT", "RESV", "BHP", "THP", "GRUP",
     "CMODE_UNDEFINED"}

\* Default member initializer of WellProductionProperties::controlMode.
DefaultControlMode == "CMODE_UNDEFINED"

\* The mode names WellProducer::ControlModeFromString recognises.
ModeNames == ControlModeEnum \ {"CMODE_UNDEFINED"}

\* Trimmed CMODE texts a record may carry: every mode name and one text that
\* names no mode.
CModeTexts == ModeNames \cup {"FOO"}

\* WellProducer::ControlModeFromString: the enum value of a recognised name,
\* std::invalid_argument for any other text.
ControlModeFromString(text) ==
    IF text \in ModeNames
    THEN [ok |-> TRUE, mode |-> CHOOSE m \in ControlModeEnum : m = text]
    ELSE [ok |-> FALSE, mode |-> "CMODE_UNDEFINED"]

\* unit::atm, one standard atmosphere in Pa.
atm == 101325

(***************************************************************************)
(* WellProductionProperties: the value type.                               *)
(***************************************************************************)
\* The default member initializers: what a constructor leaves untouched.
DefaultMembers ==
    [OilRate |-> 0, WaterRate |-> 0, GasRate |-> 0, LiquidRate |-> 0,
     ResVRate |-> 0, BHPLimit |-> 0, THPLimit |-> 0, BHPH |-> 0, THPH |-> 0,
     VFPTableNumber |-> 0, ALQValue |-> 0, predictionMode |-> FALSE,
     controlMode |-> DefaultControlMode, m_productionControls |-> {}]

\* WellProductionProperties(): predictionMode( true ).
WellProductionProperties == [DefaultMembers EXCEPT !.predictionMode = TRUE]

\* WellProductionProperties( const DeckRecord& ): the three rates of the record.
FromRecord(record) ==
    [DefaultMembers EXCEPT !.OilRate = record.ORAT.value,
                           !.WaterRate = record.WRAT.value,
                           !.GasRate = record.GRAT.value]

hasProductionControl(p, mode) == mode \in p.m_productionControls

addProductionControl(p, mode) ==
    IF ~hasProductionControl(p, mode)
    THEN [p EXCEPT !.m_productionControls = @ \cup {mode}]
    ELSE p

\* effectiveHistoryProductionControl that also accepts THP.
MutEffectiveWithTHP(cmode) == cmode \in EffectiveModes \cup {"THP"}

effectiveHistoryProductionControl(cmode) ==
    cmode = "LRAT" \/ cmode = "RESV" \/ cmode = "ORAT" \/
    cmode = "WRAT" \/ cmode = "GRAT" \/ cmode = "BHP"

resetDefaultBHPLimit(p) == [p EXCEPT !.BHPLimit = 1 * atm]

setBHPLimit(p, limit) == [p EXCEPT !.BHPLimit = limit]

getBHPLimit(p) == p.BHPLimit

(***************************************************************************)
(* Results of a resolver call: the returned value, or the exception.       *)
(***************************************************************************)
Returned(p) == [status |-> "ok", p |-> <<p>>]

Throw(what) == [status |-> what, p |-> <<>>]

NoCall == [status |-> "none", p |-> <<>>]

(***************************************************************************)
(* WellProductionProperties::history                                       *)
(***************************************************************************)
\* Lines 50-59: construction, liquid rate, measured BHP and THP.
historyRates(record) ==
    LET p0 == [FromRecord(record) EXCEPT !.predictionMode = FALSE]
        p1 == [p0 EXCEPT !.LiquidRate = p0.WaterRate + p0.OilRate]
        p2 == IF record.BHP.hasValue THEN [p1 EXCEPT !.BHPH = record.BHP.value] ELSE p1
    IN  IF record.THP.hasValue THEN [p2 EXCEPT !.THPH = record.THP.value] ELSE p2

\* Lines 68-73: the record's mode, replaced by an effective WHISTCTL mode.
historyOverride(cmode, controlModeWHISTCL) ==
    IF effectiveHistoryProductionControl(controlModeWHISTCL)
    THEN controlModeWHISTCL
    ELSE cmode

\* Lines 75-77: the validated mode becomes an active and the current control.
\* historySetControl without addProductionControl.
MutSetControlOnly(p, cmode) == [p EXCEPT !.controlMode = cmode]

historySetControl(p, cmode) ==
    [addProductionControl(p, cmode) EXCEPT !.controlMode = cmode]

\* Lines 84-87: there is always a BHP control.
\* historyEnsureBHP without the BHP control.
MutNoBHPControl(p) == p

historyEnsureBHP(p) ==
    IF ~hasProductionControl(p, "BHP") THEN addProductionControl(p, "BHP") ELSE p

\* Lines 89-102: the BHP limit.
\* historyBHPLimit without the test of the previous control mode.
MutKeepLimitAfterBHP(p, cmode, prev, switching) ==
    IF cmode = "BHP"
    THEN setBHPLimit(p, p.BHPH)
    ELSE IF prev.predictionMode \/ switching
         THEN resetDefaultBHPLimit(p)
         ELSE setBHPLimit(p, getBHPLimit(prev))

historyBHPLimit(p, cmode, prev, switching) ==
    IF cmode = "BHP"
    THEN setBHPLimit(p, p.BHPH)
    ELSE IF prev.predictionMode \/ switching \/ prev.controlMode = "BHP"
         THEN resetDefaultBHPLimit(p)
         ELSE setBHPLimit(p, getBHPLimit(prev))

\* Lines 104-107: the VFP table number, inherited when the record has 0.
\* historyVFP without the inheritance.
MutVFPNotInherited(p, prev, record) ==
    [p EXCEPT !.VFPTableNumber = record.VFPTable]

historyVFP(p, prev, record) ==
    LET q == [p EXCEPT !.VFPTableNumber = record.VFPTable]
    IN  IF q.VFPTableNumber = 0
        THEN [q EXCEPT !.VFPTableNumber = prev.VFPTableNumber]
        ELSE q

\* Lines 109-112: the lift quantity, inherited when the record has 0.
\* historyALQ without the inheritance.
MutALQNotInherited(p, prev, record) ==
    [p EXCEPT !.ALQValue = record.Lift]

historyALQ(p, prev, record) ==
    LET q == [p EXCEPT !.ALQValue = record.Lift]
    IN  IF q.ALQValue = 0
        THEN [q EXCEPT !.ALQValue = prev.ALQValue]
        ELSE q

\* Lines 61-65: a defaulted CMODE item is refused.
\* historyCModeDefaulted without the test.
MutDefaultedAllowed(record) == FALSE

historyCModeDefaulted(record) == record.CMODE.defaultApplied

history(prev_props, record, controlModeWHISTCL, switching) ==
    LET p == historyRates(record)
    IN  IF historyCModeDefaulted(record)
        THEN Throw("control mode can not be defaulted for keyword WCONHIST")
        ELSE
        LET parsed == ControlModeFromString(record.CMODE.text)
        IN  IF ~parsed.ok
            THEN Throw("Unknown enum state string")
            ELSE
            LET cmode == historyOverride(parsed.mode, controlModeWHISTCL)
            IN  IF ~effectiveHistoryProductionControl(cmode)
                THEN Throw("unsupported control mode for WCONHIST")
                ELSE
                LET p1 == historySetControl(p, cmode)
                    p2 == historyEnsureBHP(p1)
                    p3 == historyBHPLimit(p2, cmode, prev_props, switching)
                    p4 == historyVFP(p3, prev_props, record)
                    p5 == historyALQ(p4, prev_props, record)
                IN  Returned(p5)

(***************************************************************************)
(* WellProductionProperties::prediction                                    *)
(***************************************************************************)
\* Lines 121-129: construction and the six items read directly.
predictionValues(record) ==
    [FromRecord(record) EXCEPT !.predictionMode = TRUE,
                               !.LiquidRate = record.LRAT.value,
                               !.ResVRate = record.RESV.value,
                               !.BHPLimit = record.BHP.value,
                               !.THPLimit = record.THP.value,
                               !.ALQValue = record.ALQ,
                               !.VFPTableNumber = record.VFP_TABLE]

\* Lines 133-136: the table of the loop, in its order.
modes == <<"ORAT", "WRAT", "GRAT", "LRAT", "RESV", "THP">>

\* Lines 138-147: the loop over the table, from entry i on.
\* predictionLoop without the test for a zero THP limit.
RECURSIVE MutLoopKeepsZeroTHP(_, _, _)
MutLoopKeepsZeroTHP(p, record, i) ==
    IF i > Len(modes)
    THEN p
    ELSE IF ~record[modes[i]].defaultApplied
         THEN MutLoopKeepsZeroTHP(addProductionControl(p, modes[i]), record, i + 1)
         ELSE MutLoopKeepsZeroTHP(p, record, i + 1)

RECURSIVE predictionLoop(_, _, _)
predictionLoop(p, record, i) ==
    IF i > Len(modes)
    THEN p
    ELSE IF ~record[modes[i]].defaultApplied
         THEN IF modes[i] = "THP" /\ p.THPLimit = 0
              THEN predictionLoop(p, record, i + 1)
              ELSE predictionLoop(addProductionControl(p, modes[i]), record, i + 1)
         ELSE predictionLoop(p, record, i + 1)

\* Lines 149-154: BHP always, GRUP on request.
predictionFixedControls(p, addGroupControl) ==
    LET q == addProductionControl(p, "BHP")
    IN  IF addGroupControl THEN addProductionControl(q, "GRUP") ELSE q

\* Lines 162-165: the CMODE of the record must be an active control.
\* predictionSelect without the test for an active control.
MutCModeUnchecked(p, cmode) == Returned([p EXCEPT !.controlMode = cmode])

predictionSelect(p, cmode) ==
    IF hasProductionControl(p, cmode)
    THEN Returned([p EXCEPT !.controlMode = cmode])
    ELSE Throw("Setting CMODE to unspecified control")

prediction(record, addGroupControl) ==
    LET p  == predictionValues(record)
        p1 == predictionLoop(p, record, 1)
        p2 == predictionFixedControls(p1, addGroupControl)
    IN  IF record.CMODE.hasValue
        THEN LET parsed == ControlModeFromString(record.CMODE.text)
             IN  IF ~parsed.ok
                 THEN Throw("Unknown enum state string")
                 ELSE predictionSelect(p2, parsed.mode)
        ELSE Returned(p2)

(***************************************************************************)
(* operator== and operator!=                                               *)
(***************************************************************************)
OpEq(a, b) ==
       a.OilRate = b.OilRate
    /\ a.WaterRate = b.WaterRate
    /\ a.GasRate = b.GasRate
    /\ a.LiquidRate = b.LiquidRate
    /\ a.ResVRate = b.ResVRate
    /\ a.BHPLimit = b.BHPLimit
    /\ a.THPLimit = b.THPLimit
    /\ a.BHPH = b.BHPH
    /\ a.THPH = b.THPH
    /\ a.VFPTableNumber = b.VFPTableNumber
    /\ a.controlMode = b.controlMode
    /\ a.m_productionControls = b.m_productionControls
    /\ a.predictionMode = b.predictionMode

OpNe(a, b) == ~OpEq(a, b)

(***************************************************************************)
(* Deck records.  An item carries what the code asks of it: its value      *)
(* (getSIDouble / get), defaultApplied(0), hasValue(0), getTrimmedString.  *)
(***************************************************************************)
\* A rate item: defaulted (the keyword's default, 0) or stated.
StatedRates == {[defaultApplied |-> FALSE, value |-> v] : v \in RateValues}

RateItems == {[defaultApplied |-> TRUE, value |-> 0]} \cup StatedRates

\* A measured pressure of WCONHIST: absent or stated.
Measured(values) ==
    {[hasValue |-> FALSE, value |-> 0]} \cup
    {[hasValue |-> TRUE, value |-> v] : v \in values}

\* WCONHIST records over the given rate items, BHP and THP items and CMODE texts.
HistoryRecords(rates, bhp, thp, texts) ==
    [ORAT : rates, WRAT : rates, GRAT : rates, BHP : bhp, THP : thp,
     CMODE : {[defaultApplied |-> TRUE, text |-> ""]} \cup
             {[defaultApplied |-> FALSE, text |-> t] : t \in texts},
     VFPTable : 0..MaxVFP,
     Lift : 0..MaxALQ]

\* The THP item of WCONPROD: defaulted (0), stated as 0, stated as a pressure.
THPItems ==
    {[defaultApplied |-> TRUE, value |-> 0], [defaultApplied |-> FALSE, value |-> 0]} \cup
    {[defaultApplied |-> FALSE, value |-> v] : v \in THPValues}

\* The BHP item of WCONPROD: defaulted (the keyword's default) or stated.
BHPItems ==
    {[defaultApplied |-> TRUE, value |-> atm]} \cup
    {[defaultApplied |-> FALSE, value |-> v] : v \in BHPValues}

\* WCONPROD records over the given items and CMODE texts.
PredictionRecords(orat, rates, thp, bhp, texts) ==
    [ORAT : orat, WRAT : rates, GRAT : rates, LRAT : rates, RESV : rates,
     THP : thp, BHP : bhp,
     CMODE : {[hasValue |-> FALSE, text |-> ""]} \cup
             {[hasValue |-> TRUE, text |-> t] : t \in texts},
     ALQ : 0..MaxALQ,
     VFP_TABLE : 0..MaxVFP]

\* Every record of the model.
WCONHIST == HistoryRecords(RateItems, Measured(BHPValues), Measured(THPValues), CModeTexts)

WCONPROD == PredictionRecords(RateItems, RateItems, THPItems, BHPItems, CModeTexts)

\* The records and WHISTCTL modes the well meets over its report steps.
WellWCONHIST ==
    HistoryRecords(StatedRates, Measured(BHPValues),
                   {[hasValue |-> TRUE, value |-> v] : v \in THPValues},
                   CModeTexts)

WellWHISTCTL == {"CMODE_UNDEFINED", "LRAT", "BHP", "THP"}

WellWCONPROD ==
    PredictionRecords(RateItems, {[defaultApplied |-> TRUE, value |-> 0]},
                      {[defaultApplied |-> TRUE, value |-> 0]} \cup
                      {[defaultApplied |-> FALSE, value |-> v] : v \in THPValues},
                      {[defaultApplied |-> TRUE, value |-> atm]},
                      {"ORAT", "BHP", "THP", "GRUP", "FOO"})

NoRecord == [keyword |-> "none"]

(***************************************************************************)
(* The state: the well's properties and the call being made on them.       *)
(***************************************************************************)
VARIABLES
    well,                       \* the well's current production properties
    hasPrior,                   \* a resolved state has been published for the well
    op,                         \* the call in progress: none, history, prediction
    prev_properties,            \* history(): the previous properties passed
    record,                     \* the record passed
    controlModeWHISTCL,         \* history(): the WHISTCTL mode passed
    switching_from_injector,    \* history(): the flag passed
    addGroupProductionControl,  \* prediction(): the flag passed
    ret,                        \* what the call returned or threw
    cmp                         \* the comparison's operands and results

vars == <<well, hasPrior, op, prev_properties, record, controlModeWHISTCL,
          switching_from_injector, addGroupProductionControl, ret, cmp>>

NoCmp == [done |-> FALSE, a |-> WellProductionProperties,
          b |-> WellProductionProperties, eq |-> TRUE, ne |-> FALSE]

\* No call in progress.
Idle ==
    /\ op = "none"
    /\ prev_properties = WellProductionProperties
    /\ record = NoRecord
    /\ controlModeWHISTCL = "CMODE_UNDEFINED"
    /\ switching_from_injector = FALSE
    /\ addGroupProductionControl = FALSE
    /\ ret = NoCall
    /\ cmp = NoCmp

\* A new well: default-constructed properties, no record handled yet.
Init ==
    /\ well = WellProductionProperties
    /\ hasPrior = FALSE
    /\ Idle

\* A WCONHIST record is handled: history() on the well's current properties.
HistoryStep(records, overrides) ==
    /\ op = "none"
    /\ \E rec \in records, whistctl \in overrides, switching \in BOOLEAN :
        /\ op' = "history"
        /\ prev_properties' = well
        /\ record' = rec
        /\ controlModeWHISTCL' = whistctl
        /\ switching_from_injector' = switching
        /\ ret' = history(well, rec, whistctl, switching)
        /\ UNCHANGED <<well, hasPrior, addGroupProductionControl, cmp>>

\* A WCONPROD record is handled: prediction().
PredictionStep(records) ==
    /\ op = "none"
    /\ \E rec \in records, addGroupControl \in BOOLEAN :
        /\ op' = "prediction"
        /\ record' = rec
        /\ addGroupProductionControl' = addGroupControl
        /\ ret' = prediction(rec, addGroupControl)
        /\ UNCHANGED <<well, hasPrior, prev_properties, controlModeWHISTCL,
                       switching_from_injector, cmp>>

HistoryCall == HistoryStep(WellWCONHIST, WellWHISTCTL)

PredictionCall == PredictionStep(WellWCONPROD)

\* The properties history() returned are compared with the previous ones.
CompareCall ==
    /\ op = "history"
    /\ ret.status = "ok"
    /\ ~cmp.done
    /\ cmp' = [done |-> TRUE, a |-> ret.p[1], b |-> prev_properties,
               eq |-> OpEq(ret.p[1], prev_properties),
               ne |-> OpNe(ret.p[1], prev_properties)]
    /\ UNCHANGED <<well, hasPrior, op, prev_properties, record, controlModeWHISTCL,
                   switching_from_injector, addGroupProductionControl, ret>>

\* The call is over: the properties returned become the well's for the next
\* report step; after an exception the well keeps the ones it had.
Publish ==
    /\ op # "none"
    /\ well' = IF ret.status = "ok" THEN ret.p[1] ELSE well
    /\ hasPrior' = (hasPrior \/ ret.status = "ok")
    /\ op' = "none"
    /\ prev_properties' = WellProductionProperties
    /\ record' = NoRecord
    /\ controlModeWHISTCL' = "CMODE_UNDEFINED"
    /\ switching_from_injector' = FALSE
    /\ addGroupProductionControl' = FALSE
    /\ ret' = NoCall
    /\ cmp' = NoCmp

\* Between two records the BHP limit of the well's properties is set.
SetBHPLimitCall ==
    /\ op = "none"
    /\ hasPrior
    /\ \E limit \in LimitValues :
        /\ getBHPLimit(well) # limit
        /\ well' = setBHPLimit(well, limit)
        /\ UNCHANGED <<hasPrior, op, prev_properties, record, controlModeWHISTCL,
                       switching_from_injector, addGroupProductionControl, ret, cmp>>

\* The well over its report steps.
Next == HistoryCall \/ PredictionCall \/ CompareCall \/ Publish \/ SetBHPLimitCall

Spec == Init /\ [][Next]_vars

\* The first record of a new well, drawn from every record of the model.
FirstHistoryCall == ~hasPrior /\ HistoryStep(WCONHIST, ControlModeEnum)

FirstPredictionCall == ~hasPrior /\ PredictionStep(WCONPROD)

NextFirst == FirstHistoryCall \/ FirstPredictionCall

SpecFirst == Init /\ [][NextFirst]_vars

(***************************************************************************)
(* Properties.                                                             *)
(***************************************************************************)
HistoryReturned == op = "history" /\ ret.status = "ok"

PredictionReturned == op = "prediction" /\ ret.status = "ok"

\* The mode the record's CMODE text names.
StatedMode == ControlModeFromString(record.CMODE.text).mode

\* The active controls a WCONPROD record and the group flag ask for.
RequestedControls ==
    {m \in {"ORAT", "WRAT", "GRAT", "LRAT", "RESV"} : ~record[m].defaultApplied}
    \cup (IF ~record.THP.defaultApplied /\ record.THP.value # 0 THEN {"THP"} ELSE {})
    \cup {"BHP"}
    \cup (IF addGroupProductionControl THEN {"GRUP"} ELSE {})

\* C1: every properties object history() or prediction() returns has BHP among
\* its production controls, whether or not the record states BHP and whatever
\* the current control is.
C1_BHPAlwaysActive ==
    (HistoryReturned \/ PredictionReturned)
        => "BHP" \in ret.p[1].m_productionControls

\* history() returned under ORAT control for a record without a BHP value.
C1_Witness ==
    /\ HistoryReturned
    /\ ~record.BHP.hasValue
    /\ ret.p[1].controlMode = "ORAT"
    /\ ret.p[1].m_productionControls = {"ORAT", "BHP"}

\* C2 as stated: in every properties object history() or prediction() returns
\* the current control is one of the production controls, also for a WCONPROD
\* record without a CMODE.
C2_CurrentControlActive_AsStated ==
    (HistoryReturned \/ PredictionReturned)
        => ret.p[1].controlMode \in ret.p[1].m_productionControls

\* C2 amended: the current control is one of the production controls in every
\* object history() returns and in every object prediction() returns for a
\* record with a CMODE; for a record without one prediction() leaves the
\* current control at its default.
C2_CurrentControlActive ==
    /\ HistoryReturned
           => ret.p[1].controlMode \in ret.p[1].m_productionControls
    /\ (PredictionReturned /\ record.CMODE.hasValue)
           => ret.p[1].controlMode \in ret.p[1].m_productionControls
    /\ (PredictionReturned /\ ~record.CMODE.hasValue)
           => ret.p[1].controlMode = DefaultMembers.controlMode

\* After an earlier resolved state, history() returned with the WHISTCTL mode
\* as current control although the record named another one.
C2_Witness ==
    /\ hasPrior
    /\ HistoryReturned
    /\ record.CMODE.text = "RESV"
    /\ controlModeWHISTCL = "LRAT"
    /\ ret.p[1].controlMode = "LRAT"
    /\ "LRAT" \in ret.p[1].m_productionControls

\* C3: for a WCONHIST record that states a control mode, an effective WHISTCTL
\* mode becomes the current control whatever the record states, otherwise the
\* record's mode does; the current control of every object history() returns is
\* one of ORAT, WRAT, GRAT, LRAT, RESV, BHP.
C3_HistoryCurrentControl ==
    /\ (op = "history" /\ ~record.CMODE.defaultApplied
                       /\ record.CMODE.text \in ModeNames)
           => IF controlModeWHISTCL \in EffectiveModes
              THEN ret.status = "ok" /\ ret.p[1].controlMode = controlModeWHISTCL
              ELSE ret.status = "ok" => ret.p[1].controlMode = StatedMode
    /\ HistoryReturned => ret.p[1].controlMode \in EffectiveModes

\* The record states THP, WHISTCTL is GRAT: history() returns under GRAT.
C3_Witness ==
    /\ HistoryReturned
    /\ record.CMODE.text = "THP"
    /\ controlModeWHISTCL = "GRAT"
    /\ ret.p[1].controlMode = "GRAT"

\* C4: the BHP limit history() returns is the measured BHP (BHPH) under BHP
\* control; otherwise one atmosphere when the previous properties were in
\* prediction mode, the well switches from injector, or the previous control
\* was BHP; otherwise the previous BHP limit.
C4_HistoryBHPLimit ==
    HistoryReturned =>
        ret.p[1].BHPLimit =
            IF ret.p[1].controlMode = "BHP"
            THEN ret.p[1].BHPH
            ELSE IF \/ prev_properties.predictionMode
                    \/ switching_from_injector
                    \/ prev_properties.controlMode = "BHP"
                 THEN 101325
                 ELSE prev_properties.BHPLimit

\* Previous history properties under RESV with limit 65e5, an ORAT record:
\* the limit stays 65e5.
C4_Witness ==
    /\ HistoryReturned
    /\ ~prev_properties.predictionMode
    /\ prev_properties.controlMode = "RESV"
    /\ prev_properties.BHPLimit = 6500000
    /\ ~switching_from_injector
    /\ ret.p[1].controlMode = "ORAT"
    /\ ret.p[1].BHPLimit = 6500000

\* C5: the production controls prediction() returns are exactly the stated
\* rate items, THP when stated and not zero, BHP, and GRUP when requested.
C5_PredictionControls ==
    PredictionReturned => ret.p[1].m_productionControls = RequestedControls

\* THP stated as 0, every rate defaulted, no group control: only BHP.
C5_Witness ==
    /\ PredictionReturned
    /\ ~record.THP.defaultApplied
    /\ record.THP.value = 0
    /\ \A m \in {"ORAT", "WRAT", "GRAT", "LRAT", "RESV"} : record[m].defaultApplied
    /\ ~addGroupProductionControl
    /\ ret.p[1].m_productionControls = {"BHP"}

\* C6: for a WCONPROD record whose CMODE names a mode, prediction() returns
\* with that mode as current control when the mode is among the controls the
\* record asks for, and otherwise throws and returns nothing.
C6_PredictionCMode ==
    (op = "prediction" /\ record.CMODE.hasValue /\ record.CMODE.text \in ModeNames)
        => IF StatedMode \in RequestedControls
           THEN ret.status = "ok" /\ ret.p[1].controlMode = StatedMode
           ELSE ret = [status |-> "Setting CMODE to unspecified control", p |-> <<>>]

\* Controls {BHP, ORAT}, CMODE THP: prediction() throws.
C6_Witness ==
    /\ op = "prediction"
    /\ record.CMODE.hasValue
    /\ record.CMODE.text = "THP"
    /\ RequestedControls = {"BHP", "ORAT"}
    /\ ret.status = "Setting CMODE to unspecified control"

\* The mode history() is left with after the WHISTCTL override, as C7 reads it.
ModeAfterOverride ==
    IF controlModeWHISTCL \in EffectiveModes
    THEN controlModeWHISTCL
    ELSE record.CMODE.text

\* C7 as stated: history() fails in exactly two cases, a defaulted CMODE and a
\* mode that after the override is no effective historical control; a failed
\* call returns nothing and leaves the previous properties as they were.
C7_HistoryFailures_AsStated ==
    op = "history" =>
        /\ ret.status =
               IF record.CMODE.defaultApplied
               THEN "control mode can not be defaulted for keyword WCONHIST"
               ELSE IF ModeAfterOverride \notin EffectiveModes
                    THEN "unsupported control mode for WCONHIST"
                    ELSE "ok"
        /\ ret.status # "ok" => ret.p = <<>> /\ well = prev_properties

\* C7 amended: history() fails in exactly three cases: a defaulted CMODE; a
\* stated CMODE text that names no control mode, whatever the override; a
\* named mode that after the override is no effective historical control.  A
\* failed call returns nothing and leaves the previous properties as they were.
C7_HistoryFailures ==
    op = "history" =>
        /\ ret.status =
               IF record.CMODE.defaultApplied
               THEN "control mode can not be defaulted for keyword WCONHIST"
               ELSE IF record.CMODE.text \notin ModeNames
                    THEN "Unknown enum state string"
                    ELSE IF ModeAfterOverride \notin EffectiveModes
                         THEN "unsupported control mode for WCONHIST"
                         ELSE "ok"
        /\ ret.status # "ok" => ret.p = <<>> /\ well = prev_properties

\* A defaulted CMODE under an effective WHISTCTL mode: history() throws.
C7_Witness ==
    /\ op = "history"
    /\ record.CMODE.defaultApplied
    /\ controlModeWHISTCL = "ORAT"
    /\ ret = [status |-> "control mode can not be defaulted for keyword WCONHIST",
              p |-> <<>>]

\* C8: operator== is true exactly when all fields of the two properties are
\* equal, and operator!= is its negation.
C8_EqualityIsStructural ==
    cmp.done => /\ cmp.eq = (cmp.a = cmp.b)
                /\ cmp.ne = ~cmp.eq

\* C9: history() returns the record's VFP table number, or the previous one
\* when the record has 0, and the record's lift quantity, or the previous one
\* when the record has 0.
C9_HistoryInheritance ==
    HistoryReturned =>
        /\ ret.p[1].VFPTableNumber =
               IF record.VFPTable # 0 THEN record.VFPTable
                                      ELSE prev_properties.VFPTableNumber
        /\ ret.p[1].ALQValue =
               IF record.Lift # 0 THEN record.Lift ELSE prev_properties.ALQValue

\* The record has VFP table 0 and a lift quantity; the previous table is kept.
C9_Witness ==
    /\ HistoryReturned
    /\ record.VFPTable = 0
    /\ record.Lift # 0
    /\ prev_properties.VFPTableNumber # 0
    /\ prev_properties.ALQValue = 0
    /\ ret.p[1].VFPTableNumber = prev_properties.VFPTableNumber
    /\ ret.p[1].ALQValue = record.Lift

\* The VFP table number and the lift quantity of the record handled.
RecordVFP == IF op = "history" THEN record.VFPTable ELSE record.VFP_TABLE

RecordALQ == IF op = "history" THEN record.Lift ELSE record.ALQ

\* C10 as stated: a resolved state has VFP table 0 or lift quantity 0 only when
\* no prior state existed and the record has 0; history() from an existing
\* previous state returns both non-zero.
C10_ZeroOnlyWithoutPrior_AsStated ==
    /\ (HistoryReturned \/ PredictionReturned) =>
           /\ ret.p[1].VFPTableNumber = 0 => ~hasPrior /\ RecordVFP = 0
           /\ ret.p[1].ALQValue = 0 => ~hasPrior /\ RecordALQ = 0
    /\ (HistoryReturned /\ hasPrior) =>
           ret.p[1].VFPTableNumber # 0 /\ ret.p[1].ALQValue # 0

\* C10 amended: history() returns VFP table 0 (lift quantity 0) only when the
\* record has 0 and the previous properties have 0 too; from previous
\* properties with a non-zero value it returns a non-zero value; prediction()
\* returns 0 exactly when the record has 0.
C10_ZeroOnlyFromZero ==
    /\ HistoryReturned =>
           /\ ret.p[1].VFPTableNumber = 0
                  => record.VFPTable = 0 /\ prev_properties.VFPTableNumber = 0
           /\ ret.p[1].ALQValue = 0
                  => record.Lift = 0 /\ prev_properties.ALQValue = 0
           /\ prev_properties.VFPTableNumber # 0 => ret.p[1].VFPTableNumber # 0
           /\ prev_properties.ALQValue # 0 => ret.p[1].ALQValue # 0
    /\ PredictionReturned =>
           /\ ret.p[1].VFPTableNumber = 0 <=> record.VFP_TABLE = 0
           /\ ret.p[1].ALQValue = 0 <=> record.ALQ = 0

\* A prior state exists with lift quantity set and VFP table 0; a record with
\* 0 for both inherits the lift quantity and still has VFP table 0.
C10_Witness ==
    /\ hasPrior
    /\ HistoryReturned
    /\ record.VFPTable = 0
    /\ record.Lift = 0
    /\ prev_properties.ALQValue # 0
    /\ ret.p[1].ALQValue = prev_properties.ALQValue
    /\ ret.p[1].VFPTableNumber = 0

====
